---- MODULE Spec2Model ----
(***************************************************************************)
(* Digital Liver v3 (streamlit_app.py): the liver injury dynamics model,   *)
(* its integration over the sample grid, and the scoring, classification   *)
(* and dominant-pathway logic of the "Run Simulation" handler.             *)
(*                                                                         *)
(* Numbers.  The program computes in floating point.  Here a level (a      *)
(* component of the state vector, a score) is an integer count of          *)
(* 1/Unit, and a coefficient (a rate constant, a score weight) is an       *)
(* integer count of 1/RateUnit.  Coefficient arithmetic is exact; the      *)
(* product of a coefficient and a level is rounded down to a whole number of *)
(* level units (Mul), and MulRest is what the rounding drops.    TLC's     *)
(* integers are 32 bits wide, so every product is formed limb by limb.     *)
(*                                                                         *)
(* odeint (scipy, LSODA) is a library outside the repository.  It is       *)
(* modelled by the explicit Euler scheme on the sample grid the program    *)
(* hands it: sol[0] = y0, sol[i+1] = sol[i] + (t[i+1]-t[i]) * f(sol[i]),   *)
(* one sample per step of the model, so that a trajectory is a behaviour   *)
(* and y is the sample odeint has reached.                                 *)
(***************************************************************************)
EXTENDS Integers, Sequences, FiniteSets, TLC

VARIABLES
    smiles_list, dose, duration,  \* the sidebar's widgets
    pc,                           \* "idle", or "odeint" while the handler's loop runs
    idx, smiles, amp, is_antiox,  \* the loop's variables for the current compound
    k, y,                         \* odeint: y = sol[k-1], the k-th sample
    final, report,                \* sol[-1] and what lines 105-112 derive from it
    results                       \* what has been rendered, one entry per compound

widgets == <<smiles_list, dose, duration>>

vars ==
    <<smiles_list, dose, duration, pc, idx, smiles, amp, is_antiox, k, y, final, report, results>>

-----------------------------------------------------------------------------
(* Fixed-point arithmetic *)

\* one unit of level 1.0
Unit == 500 * 1000 * 1000

\* one unit of coefficient 1.0
RateUnit == 100 * 1000

\* c * v for a coefficient c >= 0 and a level v, rounded down:
\* v = q * RateUnit + r with 0 <= r < RateUnit, so c*v/RateUnit = q*c + r*c/RateUnit
Mul(c, v) == (v \div RateUnit) * c + ((v % RateUnit) * c) \div RateUnit

\* the part of c * v below one level unit, in 1/(Unit*RateUnit)
MulRest(c, v) == ((v % RateUnit) * c) % RateUnit

\* the level 0.1 * n
Tenths(n) == n * (Unit \div 10)

-----------------------------------------------------------------------------
(* The dynamics model *)

k_cyp == 4000
k_bio == 3000
k_gsh == 2500
k_clear == 1000

\* amp_ is 10 times the amplifier (10 or 25)
\* mutant of k_ros: the amplifier left out
k_ros_flat(amp_) == 3000

k_ros(amp_) == (3000 * amp_) \div 10
k_mito(amp_) == (1500 * amp_) \div 10
k_apop(amp_) == (1200 * amp_) \div 10
k_necro(amp_) == (800 * amp_) \div 10
k_chol(amp_) == (600 * amp_) \div 10
k_fib(amp_) == (500 * amp_) \div 10

\* mutant of antioxidant_clearance: the flag ignored
antioxidant_clearance_off(is_antioxidant) == 0

antioxidant_clearance(is_antioxidant) == IF is_antioxidant THEN 1500 ELSE 0

min(a, b) == IF a <= b THEN a ELSE b

\* v[i+1] is the program's v[i]
at(v, i) == v[i + 1]

\* mutant of d_drug: the sign lost
d_drug_up(drug) == Mul(k_cyp, drug)

d_drug(drug) == -Mul(k_cyp, drug)

d_gsh(tox_met, gsh) == -Mul(k_gsh, min(tox_met, gsh))

d_tox_met(drug, tox_met, gsh) ==
    Mul(k_bio, Mul(k_cyp, drug)) - Mul(k_gsh, min(tox_met, gsh))

\* the clearance term of d_ros
ros_clearance(ros, is_antioxidant) ==
    Mul(k_clear + antioxidant_clearance(is_antioxidant), ros)

d_ros(amp_, tox_met, ros, is_antioxidant) ==
    Mul(k_ros(amp_), tox_met) - ros_clearance(ros, is_antioxidant)

d_alt(ros) == Mul(1200, ros)

\* mutant of d_ast: another leakage rate than ALT's
d_ast_slow(ros) == Mul(1000, ros)

d_ast(ros) == Mul(1200, ros)

\* mutant of liver_dili_model: d_gsh is a copy of the d_drug line
liver_dili_model_pasted(y_, t, amp_, dose_, is_antioxidant) ==
    LET drug == at(y_, 0)
        tox_met == at(y_, 1)
        gsh == at(y_, 2)
        ros == at(y_, 3)
        mito == at(y_, 6)
        apop == at(y_, 8)
        necro == at(y_, 9)
    IN  << d_drug(drug),
           d_tox_met(drug, tox_met, gsh),
           d_drug(drug),
           d_ros(amp_, tox_met, ros, is_antioxidant),
           d_alt(ros),
           d_ast(ros),
           Mul(k_mito(amp_), ros + tox_met),
           Mul(k_chol(amp_), tox_met),
           Mul(k_apop(amp_), ros) + Mul(1000, mito),
           Mul(k_necro(amp_), ros),
           Mul(k_fib(amp_), apop + necro) >>

liver_dili_model(y_, t, amp_, dose_, is_antioxidant) ==
    LET drug == at(y_, 0)
        tox_met == at(y_, 1)
        gsh == at(y_, 2)
        ros == at(y_, 3)
        mito == at(y_, 6)
        apop == at(y_, 8)
        necro == at(y_, 9)
    IN  << d_drug(drug),
           d_tox_met(drug, tox_met, gsh),
           d_gsh(tox_met, gsh),
           d_ros(amp_, tox_met, ros, is_antioxidant),
           d_alt(ros),
           d_ast(ros),
           Mul(k_mito(amp_), ros + tox_met),
           Mul(k_chol(amp_), tox_met),
           Mul(k_apop(amp_), ros) + Mul(1000, mito),
           Mul(k_necro(amp_), ros),
           Mul(k_fib(amp_), apop + necro) >>

-----------------------------------------------------------------------------
(* Integration over the sample grid *)

SampleCount == 300

\* np.linspace(0, duration, 300), in units of 1/(SampleCount-1) hour
linspace(duration_) == [i \in 1..SampleCount |-> (i - 1) * duration_]

\* dt * d for a time difference dt (in 1/(SampleCount-1) hour), rounded down
TimesDt(d, dt) ==
    (d \div (SampleCount - 1)) * dt + ((d % (SampleCount - 1)) * dt) \div (SampleCount - 1)

\* y + dt * d, component by component
EulerStep(y_, d, dt) ==
    << y_[1] + TimesDt(d[1], dt), y_[2] + TimesDt(d[2], dt), y_[3] + TimesDt(d[3], dt),
       y_[4] + TimesDt(d[4], dt), y_[5] + TimesDt(d[5], dt), y_[6] + TimesDt(d[6], dt),
       y_[7] + TimesDt(d[7], dt), y_[8] + TimesDt(d[8], dt), y_[9] + TimesDt(d[9], dt),
       y_[10] + TimesDt(d[10], dt), y_[11] + TimesDt(d[11], dt) >>

\* sol[i+1] from y = sol[i]: one call of the model and one step
Advance(y_, t, i, amp_, dose_, is_antioxidant) ==
    EulerStep(y_, liver_dili_model(y_, t[i], amp_, dose_, is_antioxidant), t[i + 1] - t[i])

\* dose_ is 10 times the slider's value
y0(dose_) == <<Tenths(dose_), 0, Unit, 0, 0, 0, 0, 0, 0, 0, 0>>

-----------------------------------------------------------------------------
(* Compound descriptors *)

\* A SMILES line is a sequence of fragments; lower() acts fragment by fragment,
\* and "x in smiles_lower" is the presence of the fragment x.
LowerCase ==
    [f \in {"CCO", "CC", "Cl", "Br", "Luteolin", "Quercetin"} |->
        CASE f = "CCO" -> "cco"
          [] f = "CC" -> "cc"
          [] f = "Cl" -> "cl"
          [] f = "Br" -> "br"
          [] f = "Luteolin" -> "luteolin"
          [] f = "Quercetin" -> "quercetin"]

lower(s) == [i \in 1..Len(s) |-> IF s[i] \in DOMAIN LowerCase THEN LowerCase[s[i]] ELSE s[i]]

contains(s, x) == \E i \in 1..Len(s) : s[i] = x

antioxidants == {"luteolin", "quercetin", "resveratrol", "curcumin", "naringenin"}

amp_of(smiles_lower) ==
    IF \E x \in {"cl", "br", "no2", "epoxide"} : contains(smiles_lower, x) THEN 25 ELSE 10

is_antiox_of(smiles_lower) == \E x \in antioxidants : contains(smiles_lower, x)

-----------------------------------------------------------------------------
(* Scoring, classification, dominant pathway *)

interpret_toxicity(marker) ==
    LET explanations ==
          [m \in {"ROS", "ALT", "Mito Stress", "Apoptosis", "Necrosis", "Fibrosis",
                  "Cholestasis"} |->
             CASE m = "ROS" ->
                    "High oxidative stress was observed, which can trigger widespread cellular damage."
               [] m = "ALT" ->
                    "Elevated ALT suggests liver cell leakage or membrane injury."
               [] m = "Mito Stress" ->
                    "Mitochondrial dysfunction can lead to energy depletion and trigger apoptosis."
               [] m = "Apoptosis" ->
                    "Programmed cell death was a major outcome, often seen in early DILI."
               [] m = "Necrosis" ->
                    "Cell death through necrosis indicates severe, uncontrolled damage."
               [] m = "Fibrosis" ->
                    "Chronic damage may result in fibrotic tissue formation."
               [] m = "Cholestasis" ->
                    "Bile flow disruption was prominent, which can lead to jaundice or hepatic inflammation."]
    IN  IF marker \in DOMAIN explanations THEN explanations[marker]
        ELSE "Toxic pathway contribution was observed."

\* the dict, in insertion order, as (key, value) pairs
tox_markers(final_) ==
    << <<"ROS", at(final_, 3)>>,
       <<"ALT", at(final_, 4)>>,
       <<"Mito Stress", at(final_, 6)>>,
       <<"Cholestasis", at(final_, 7)>>,
       <<"Apoptosis", at(final_, 8)>>,
       <<"Necrosis", at(final_, 9)>>,
       <<"Fibrosis", at(final_, 10)>> >>

\* max(d, key=d.get): the running best is replaced only by a strictly larger value
RECURSIVE max_from(_, _, _)
max_from(d, i, best) ==
    IF i > Len(d) THEN d[best][1]
    ELSE max_from(d, i + 1, IF d[i][2] > d[best][2] THEN i ELSE best)

\* mutant of dominant_of: the running best is replaced by any value not smaller
RECURSIVE max_from_last(_, _, _)
max_from_last(d, i, best) ==
    IF i > Len(d) THEN d[best][1]
    ELSE max_from_last(d, i + 1, IF d[i][2] >= d[best][2] THEN i ELSE best)

dominant_of_last(d) == max_from_last(d, 2, 1)

dominant_of(d) == max_from(d, 2, 1)

\* mutant of score_of: final[5] (AST) where the program reads final[4] (ALT)
score_of_ast(final_) ==
    Mul(20000, at(final_, 3)) + Mul(13000, at(final_, 5)) + Mul(13000, at(final_, 6))
    + Mul(13000, at(final_, 8)) + Mul(13000, at(final_, 9)) + Mul(18000, at(final_, 10))
    + Mul(10000, at(final_, 7))

score_of(final_) ==
    Mul(20000, at(final_, 3)) + Mul(13000, at(final_, 4)) + Mul(13000, at(final_, 6))
    + Mul(13000, at(final_, 8)) + Mul(13000, at(final_, 9)) + Mul(18000, at(final_, 10))
    + Mul(10000, at(final_, 7))

\* mutant of risk_of: <= where the program has <
risk_of_inclusive(score) ==
    IF score <= Tenths(6) THEN "LOW" ELSE IF score <= Tenths(15) THEN "MODERATE" ELSE "HIGH"

risk_of(score) ==
    IF score < Tenths(6) THEN "LOW" ELSE IF score < Tenths(15) THEN "MODERATE" ELSE "HIGH"

\* lines 95-112: what the handler derives from the terminal state
scoring(final_) ==
    LET dominant == dominant_of(tox_markers(final_))
        score == score_of(final_)
    IN  [dominant |-> dominant,
         explanation |-> interpret_toxicity(dominant),
         score |-> score,
         risk |-> risk_of(score)]

-----------------------------------------------------------------------------
(* The "Run Simulation" handler *)

NoReport == [dominant |-> "", explanation |-> "", score |-> 0, risk |-> ""]

\* input sets
MaxCompounds == 2

Compounds == { <<"CCO">>, <<"CC", "Cl">>, <<"Luteolin">>, <<"Br", "Quercetin">> }

DoseMin == 1
DoseMax == 30
DoseDefault == 10
DurationMin == 12
DurationMax == 96
DurationDefault == 48

Doses == {DoseMin, DoseDefault, DoseMax}

Durations == {DurationMin, DurationDefault, DurationMax}

SmilesLists == UNION { [1..n -> Compounds] : n \in 0..MaxCompounds }

\* a script run starts with none of the loop's names bound and nothing rendered
Unset ==
    /\ idx' = 0
    /\ smiles' = <<>>
    /\ amp' = 0
    /\ is_antiox' = FALSE
    /\ k' = 0
    /\ y' = <<>>
    /\ final' = <<>>
    /\ report' = NoReport
    /\ results' = <<>>

\* enumerate(smiles_list): the i-th item, (idx, smiles)
enumerate(list, i) == <<i - 1, list[i]>>

\* mutant of Enter: y0 is built for the first item only, the next ones go on from
\* where the last trajectory ended
EnterStale(i) ==
    /\ idx' = enumerate(smiles_list, i)[1]
    /\ smiles' = enumerate(smiles_list, i)[2]
    /\ amp' = amp_of(lower(smiles'))
    /\ is_antiox' = is_antiox_of(lower(smiles'))
    /\ y' = IF i = 1 THEN y0(dose) ELSE y
    /\ k' = 1

\* lines 73-80 for the i-th item: the loop variables, y0, and odeint at its first sample
Enter(i) ==
    /\ idx' = enumerate(smiles_list, i)[1]
    /\ smiles' = enumerate(smiles_list, i)[2]
    /\ amp' = amp_of(lower(smiles'))
    /\ is_antiox' = is_antiox_of(lower(smiles'))
    /\ y' = y0(dose)
    /\ k' = 1

\* A widget interaction reruns the script with the button unpressed: nothing is
\* simulated and nothing of the previous run is shown.
Rerun ==
    /\ pc' = "idle"
    /\ Unset

SetSmiles ==
    /\ pc = "idle"
    /\ \E l \in SmilesLists : l # smiles_list /\ smiles_list' = l
    /\ UNCHANGED <<dose, duration>>
    /\ Rerun

SetDose ==
    /\ pc = "idle"
    /\ \E d \in Doses : d # dose /\ dose' = d
    /\ UNCHANGED <<smiles_list, duration>>
    /\ Rerun

SetDuration ==
    /\ pc = "idle"
    /\ \E h \in Durations : h # duration /\ duration' = h
    /\ UNCHANGED <<smiles_list, dose>>
    /\ Rerun

\* the button: the script reruns and enters the loop
RunSimulation ==
    /\ pc = "idle"
    /\ IF smiles_list = <<>>
       THEN pc' = "idle" /\ Unset
       ELSE /\ pc' = "odeint"
            /\ Enter(1)
            /\ final' = <<>>
            /\ report' = NoReport
            /\ results' = <<>>
    /\ UNCHANGED widgets

\* odeint reaches the next sample time
OdeintStep ==
    /\ pc = "odeint"
    /\ k < SampleCount
    /\ y' = Advance(y, linspace(duration), k, amp, dose, is_antiox)
    /\ k' = k + 1
    /\ UNCHANGED <<widgets, pc, idx, smiles, amp, is_antiox, final, report, results>>

\* odeint has returned: lines 95-116 for this compound, then the next item
ScoreCompound ==
    /\ pc = "odeint"
    /\ k = SampleCount
    /\ final' = y
    /\ report' = scoring(y)
    /\ results' = Append(results, [compound |-> idx + 1,
                                   smiles |-> smiles,
                                   amp |-> amp,
                                   is_antiox |-> is_antiox,
                                   final |-> final',
                                   report |-> report'])
    /\ IF idx + 1 < Len(smiles_list)
       THEN pc' = "odeint" /\ Enter(idx + 2)
       ELSE pc' = "idle" /\ UNCHANGED <<idx, smiles, amp, is_antiox, k, y>>
    /\ UNCHANGED widgets

Init ==
    /\ smiles_list = << <<"CCO">> >>
    /\ dose = DoseDefault
    /\ duration = DurationDefault
    /\ pc = "idle"
    /\ idx = 0
    /\ smiles = <<>>
    /\ amp = 0
    /\ is_antiox = FALSE
    /\ k = 0
    /\ y = <<>>
    /\ final = <<>>
    /\ report = NoReport
    /\ results = <<>>

Next == SetSmiles \/ SetDose \/ SetDuration \/ RunSimulation \/ OdeintStep \/ ScoreCompound

Spec == Init /\ [][Next]_vars

-----------------------------------------------------------------------------
(* Scoring as a function of the terminal state: odeint has returned some      *)
(* terminal state y, and the handler scores it.                               *)

Levels == {-Tenths(6), 0, Tenths(6), Tenths(15)}

\* terminal states: the seven scored components range over Levels, the four
\* others (drug, toxic metabolite, GSH, AST) are 0 or 3.0 together
TerminalStates ==
    { <<u, u, u, f[1], f[2], u, f[3], f[4], f[5], f[6], f[7]>> :
        f \in [1..7 -> Levels], u \in {0, Tenths(30)} }

ScoreInit ==
    /\ smiles_list = << <<"CCO">> >>
    /\ dose = DoseDefault
    /\ duration = DurationDefault
    /\ pc = "odeint"
    /\ idx = 0
    /\ smiles = <<"CCO">>
    /\ amp = 10
    /\ is_antiox = FALSE
    /\ k = SampleCount
    /\ y \in TerminalStates
    /\ final = <<>>
    /\ report = NoReport
    /\ results = <<>>

ScoreNext == ScoreCompound

ScoreSpec == ScoreInit /\ [][ScoreNext]_vars

-----------------------------------------------------------------------------
(* Properties of scoring, checked under ScoreSpec *)

Scored == report.risk # ""

Rank(tier) == CASE tier = "LOW" -> 1 [] tier = "MODERATE" -> 2 [] tier = "HIGH" -> 3

\* scores on and next to the two thresholds
ProbeScores ==
    {0, Tenths(6) - 1, Tenths(6), Tenths(6) + 1, Tenths(15) - 1, Tenths(15), Tenths(15) + 1}

\* C1: the tier of a score s is LOW exactly when s < 0.6, MODERATE exactly when
\* 0.6 <= s < 1.5 and HIGH exactly when s >= 1.5 (so 0.6 itself is MODERATE and 1.5
\* itself is HIGH); every score has one tier, and a larger score never has a lower tier.
C1_TierThresholds ==
    Scored =>
        /\ report.risk \in {"LOW", "MODERATE", "HIGH"}
        /\ (report.risk = "LOW") <=> (report.score < Tenths(6))
        /\ (report.risk = "MODERATE") <=>
               (Tenths(6) <= report.score /\ report.score < Tenths(15))
        /\ (report.risk = "HIGH") <=> (report.score >= Tenths(15))
        /\ \A s \in ProbeScores :
               /\ s >= report.score => Rank(risk_of(s)) >= Rank(report.risk)
               /\ s <= report.score => Rank(risk_of(s)) <= Rank(report.risk)
        /\ risk_of(Tenths(6)) = "MODERATE"
        /\ risk_of(Tenths(15)) = "HIGH"

\* a score of exactly 0.6 has been classified
C1_Witness == Scored /\ report.score = Tenths(6) /\ report.risk = "MODERATE"

\* the level v in tenths (the terminal states of ScoreSpec are whole tenths)
InTenths(v) == v \div Tenths(1)

WholeTenths(v) == v % Tenths(1) = 0

ScoredIndices == {3, 4, 6, 7, 8, 9, 10}

\* 1000 times the weighted sum of a terminal state given in tenths
WeightedTenths(f) ==
    20 * InTenths(at(f, 3)) + 13 * InTenths(at(f, 4)) + 13 * InTenths(at(f, 6))
    + 13 * InTenths(at(f, 8)) + 13 * InTenths(at(f, 9)) + 18 * InTenths(at(f, 10))
    + 10 * InTenths(at(f, 7))

\* C2: the score is 0.20*ROS + 0.13*ALT + 0.13*mito_stress + 0.13*apoptosis +
\* 0.13*necrosis + 0.18*fibrosis + 0.10*cholestasis of the terminal state; the weights
\* sum to 1.0 (seven equal components v score v); drug, toxic metabolite, GSH and AST do
\* not contribute; and the score is non-negative when the seven components are.
C2_WeightedScore ==
    Scored =>
        /\ (\A i \in ScoredIndices : WholeTenths(at(final, i))) =>
               report.score = (Unit \div 1000) * WeightedTenths(final)
        /\ (\A i \in ScoredIndices : at(final, i) = at(final, 3)) =>
               report.score = at(final, 3)
        /\ report.score =
               score_of([i \in 1..11 |-> IF i - 1 \in ScoredIndices THEN final[i] ELSE 0])
        /\ (\A i \in ScoredIndices : at(final, i) >= 0) => report.score >= 0

\* a terminal state with drug, toxic metabolite, GSH and AST at 3.0 and seven different
\* weights in play has been scored
C2_Witness ==
    /\ Scored
    /\ at(final, 0) > 0 /\ at(final, 5) > 0
    /\ at(final, 4) = 0
    /\ at(final, 3) = Tenths(15) /\ at(final, 10) = Tenths(6)
    /\ report.score > 0

Pathways == <<"ROS", "ALT", "Mito Stress", "Cholestasis", "Apoptosis", "Necrosis", "Fibrosis">>

PathwayIndex == <<3, 4, 6, 7, 8, 9, 10>>

Generic == "Toxic pathway contribution was observed."

\* C3: the dominant pathway is the first name in the list (ROS, ALT, Mito Stress,
\* Cholestasis, Apoptosis, Necrosis, Fibrosis) whose terminal value is the maximum of the
\* seven; the explanation shown is interpret_toxicity of that name, a mapped string; and
\* interpret_toxicity gives the generic string for every other name.
C3_DominantPathway ==
    Scored =>
        /\ \E p \in 1..7 :
               /\ report.dominant = Pathways[p]
               /\ \A q \in 1..7 : at(final, PathwayIndex[q]) <= at(final, PathwayIndex[p])
               /\ \A q \in 1..(p - 1) : at(final, PathwayIndex[q]) < at(final, PathwayIndex[p])
        /\ report.explanation = interpret_toxicity(report.dominant)
        /\ report.explanation # Generic
        /\ \A p, q \in 1..7 :
               p # q => interpret_toxicity(Pathways[p]) # interpret_toxicity(Pathways[q])
        /\ \A m \in {"AST", "GSH", "Drug", "Toxic Metabolite", "ros", "Mito", ""} :
               interpret_toxicity(m) = Generic

\* a tie for the maximum that ROS is not part of has been resolved to the earlier name
C3_Witness ==
    /\ Scored
    /\ report.dominant = "ALT"
    /\ at(final, 4) = at(final, 10) /\ at(final, 4) = at(final, 8)
    /\ at(final, 3) < at(final, 4)

-----------------------------------------------------------------------------
(* Properties of the trajectories and of the handler's loop, checked under Spec *)

Sampling == pc = "odeint"

Amplifiers == {10, 25}

\* the sample time odeint has reached
Now == linspace(duration)[k]

AmplifiedComponents == {3, 6, 8, 9, 10}

\* results changes only when a compound is scored, which leaves the loop at the first
\* sample of the next compound or the script at its end: what is said of results is
\* said there
Rendered == pc = "idle" \/ k = 1

\* C5: of two compounds of one run (same dose, duration, sample times and initial
\* state) with the same antioxidant flag, one with amplifier 1.0 and one with 2.5, the
\* amplifier-2.5 one ends with strictly greater ROS, mito_stress, apoptosis, necrosis and
\* fibrosis, a score that is not lower and a risk tier that is not lower.
C5_AmplifierMonotone ==
    Rendered =>
        \A i, j \in 1..Len(results) :
            (/\ results[i].amp = 10
             /\ results[j].amp = 25
             /\ results[i].is_antiox = results[j].is_antiox) =>
                /\ \A c \in AmplifiedComponents :
                       at(results[j].final, c) > at(results[i].final, c)
                /\ results[j].report.score >= results[i].report.score
                /\ Rank(results[j].report.risk) >= Rank(results[i].report.risk)

\* both compounds of such a pair have been scored, at the smallest dose and duration
C5_Witness ==
    /\ Len(results) = 2
    /\ dose = DoseMin /\ duration = DurationMin
    /\ results[1].amp = 25 /\ results[2].amp = 10
    /\ results[1].is_antiox /\ results[2].is_antiox
    /\ results[1].report.score > results[2].report.score

\* what the model returns at the sample reached, for the run's amplifier, dose and flag
\* (the runs of Spec cover every amplifier and flag, and the doses of Doses)
Derivative == liver_dili_model(y, Now, amp, dose, is_antiox)

\* C6: from the initial state (drug = dose, GSH = 1.0, all else 0), GSH is >= 0 at every
\* sample, for every dose, duration, amplifier and antioxidant flag; the detox flux
\* k_gsh * min(toxic_metabolite, GSH) of one hour never exceeds the GSH there is.
C6_GshNonNegative ==
    /\ Sampling =>
          /\ at(y, 2) >= 0
          /\ Mul(k_gsh, min(at(y, 1), at(y, 2))) <= at(y, 2)
          /\ k = 1 => y = <<Tenths(dose), 0, Unit, 0, 0, 0, 0, 0, 0, 0, 0>>
    /\ Rendered => \A i \in 1..Len(results) : at(results[i].final, 2) >= 0

\* the last sample of the largest dose over the longest duration, GSH partly used up
C6_Witness ==
    /\ Sampling /\ k = SampleCount
    /\ dose = DoseMax /\ duration = DurationMax /\ amp = 25
    /\ at(y, 2) > 0 /\ at(y, 2) < Unit

\* C7: ALT equals AST at every sample of every trajectory: both start at 0 and the model
\* returns the same derivative, 0.012 * ROS, for both, whatever the amplifier, the dose
\* and the antioxidant flag.
C7_AltEqualsAst ==
    /\ Sampling =>
          /\ at(y, 4) = at(y, 5)
          /\ k = 1 => (at(y, 4) = 0 /\ at(y, 5) = 0)
          /\ \A d \in {Derivative} : d[5] = d[6] /\ d[5] = Mul(1200, at(y, 3))
    /\ Rendered => \A i \in 1..Len(results) : at(results[i].final, 4) = at(results[i].final, 5)

\* the last sample of a trajectory on which ALT has risen
C7_Witness == Sampling /\ k = SampleCount /\ at(y, 4) > 0 /\ at(y, 5) > 0

\* C8: drug is non-increasing from each sample to the next and never negative, and its
\* derivative is -k_cyp * drug: a function of drug alone, whatever the other components,
\* the amplifier and the antioxidant flag.
C8_DrugDecay ==
    /\ [](Sampling =>
            /\ at(y, 0) >= 0
            /\ at(y, 0) <= Tenths(dose)
            /\ Derivative[1] = -Mul(4000, at(y, 0)))
    /\ [][(Sampling /\ pc' = "odeint" /\ idx' = idx /\ k' = k + 1) =>
              (at(y', 0) <= at(y, 0) /\ at(y', 0) >= 0)]_vars

\* the last sample of a trajectory, the drug partly gone
C8_Witness == Sampling /\ k = SampleCount /\ at(y, 0) > 0 /\ at(y, 0) < Tenths(dose)

\* C9: the i-th result is compound i, of the i-th line, with the amplifier and the flag
\* of that line alone; each compound starts from a freshly built initial state; and two
\* compounds with the same line, or with the same amplifier and flag, get the same
\* terminal state, score, tier and dominant pathway wherever they stand in the list and
\* whatever stands before them.
C9_Independent ==
    /\ Rendered =>
          /\ Len(results) <= Len(smiles_list)
          /\ (pc = "idle" /\ results # <<>>) => Len(results) = Len(smiles_list)
          /\ \A i \in 1..Len(results) :
                /\ results[i].compound = i
                /\ results[i].smiles = smiles_list[i]
                /\ results[i].amp = amp_of(lower(smiles_list[i]))
                /\ results[i].is_antiox = is_antiox_of(lower(smiles_list[i]))
                /\ results[i].report = scoring(results[i].final)
          /\ \A i, j \in 1..Len(results) :
                (/\ results[i].amp = results[j].amp
                 /\ results[i].is_antiox = results[j].is_antiox) =>
                    /\ results[i].final = results[j].final
                    /\ results[i].report = results[j].report
    /\ Sampling =>
          /\ idx = Len(results)
          /\ smiles = smiles_list[idx + 1]
          /\ k = 1 =>
                /\ amp = amp_of(lower(smiles_list[idx + 1]))
                /\ is_antiox = is_antiox_of(lower(smiles_list[idx + 1]))
                /\ y = y0(dose)

\* the same line twice in one list, both scored
C9_Witness ==
    /\ pc = "idle"
    /\ Len(results) = 2
    /\ results[1].smiles = results[2].smiles
    /\ results[2].amp = 25
    /\ results[2].compound = 2
    /\ at(results[2].final, 10) > 0

\* the clearance term (k_clear + antioxidant_clearance) * ros, exactly: whole level
\* units and the rest
ClearanceTerm(ros, is_antioxidant) ==
    <<ros_clearance(ros, is_antioxidant),
      MulRest(k_clear + antioxidant_clearance(is_antioxidant), ros)>>

Less(a, b) == a[1] < b[1] \/ (a[1] = b[1] /\ a[2] < b[2])

\* C10 as stated: with ROS > 0 the clearance term with the antioxidant flag set is
\* smaller than with the flag unset.
C10_FlagLowersClearance ==
    (Sampling /\ at(y, 3) > 0) =>
        Less(ClearanceTerm(at(y, 3), TRUE), ClearanceTerm(at(y, 3), FALSE))

\* C10, amended: with ROS > 0 the clearance term with the antioxidant flag set is larger
\* than with the flag unset, for every amplifier, so the flag does not raise d(ROS)/dt;
\* the flag is set exactly for the lines that name one of the listed antioxidants.
C10_FlagRaisesClearance ==
    Sampling =>
        /\ at(y, 3) > 0 =>
              /\ Less(ClearanceTerm(at(y, 3), FALSE), ClearanceTerm(at(y, 3), TRUE))
              /\ d_ros(amp, at(y, 1), at(y, 3), TRUE) <= d_ros(amp, at(y, 1), at(y, 3), FALSE)
        /\ is_antiox <=> (\E x \in antioxidants : contains(lower(smiles), x))

\* a sample with ROS > 0 on the trajectory of an antioxidant
C10_Witness == Sampling /\ is_antiox /\ at(y, 3) > 0 /\ k = SampleCount

====
